---- MODULE Spec2Model ----
(***************************************************************************)
(* A model of src/server.js: the Express handlers of the chat backend and  *)
(* the three tables they query (users, chats + user_chats, messages).      *)
(*                                                                         *)
(* Every `await supabase...` is a suspension point: a handler is split     *)
(* into one action per resumption.  The store client never rejects; it     *)
(* resolves to {data, error} with data = null when error is set.           *)
(*                                                                         *)
(* JavaScript null is the empty tuple Null; a non-null value v is Some(v). *)
(***************************************************************************)
EXTENDS Naturals, Sequences, FiniteSets, TLC

\* ------------------------------------------------------------- bounds
\* rows the users table may hold
MaxUsers == 5
\* rows the messages table may hold
MaxMessages == 2

\* ------------------------------------------------------------- values
Null == << >>
Some(v) == << v >>

\* error: null in a {data, error} result
NoError == [code |-> "", message |-> ""]
\* the code PostgREST gives .single() when the row count is not 1
PGRST116 == [code |-> "PGRST116", message |-> "JSON object requested, multiple (or no) rows returned"]
\* any other failure the store can report
StoreErrors ==
    { [code |-> "57014", message |-> "statement timeout"],
      [code |-> "42501", message |-> "permission denied"] }
Outcomes == {NoError} \cup StoreErrors
\* the message of the TypeError thrown by reading a property of null
TypeErrorMessage == "Cannot read properties of null"

\* ids the store hands out to new rows, in order
UserIds == << "u1", "u2", "u3", "u4", "u5", "u6", "u7", "u8" >>
MessageIds == << "m1", "m2", "m3", "m4", "m5", "m6" >>

\* request inputs
UserIdParams == {"", "u1", "u2", "u3", "u9"}
ChatIdParams == {"c1", "c2", "c9"}
PostChatIds == {"c1", "c2"}
MessageIdParams == {"m1", "m9"}
Bodies == {"hi", "yo"}
Usernames == {"", "alice", "erin", "frank"}

VARIABLES
    \* the store
    users, chats, user_chats, messages,
    \* POST /api/login, one record per request slot; the {username, id} answered 200 so far
    login, issued,
    \* GET /api/chats
    cpc, cuser, cchatIds, cchats, cpending, cresults, corder, cqlog, cqueries, cresp, cerr,
    \* GET /api/chats/:chatId, GET /api/messages/:messageId, POST /api/chats/:chatId/messages
    kpc, kreq, kresp, kzero

store == << users, chats, user_chats, messages >>
cvars == << cpc, cuser, cchatIds, cchats, cpending, cresults, corder, cqlog, cqueries, cresp, cerr >>
kvars == << kpc, kreq, kresp, kzero >>
vars == << users, chats, user_chats, messages, login, issued,
           cpc, cuser, cchatIds, cchats, cpending, cresults, corder, cqlog, cqueries, cresp, cerr,
           kpc, kreq, kresp, kzero >>

\* ------------------------------------------------------------- helpers
Range(s) == { s[i] : i \in 1..Len(s) }

\* Array.prototype.map
Map(s, F(_)) == [ i \in 1..Len(s) |-> F(s[i]) ]

\* Array.prototype.join
RECURSIVE Join(_, _)
Join(s, sep) ==
    IF Len(s) = 0 THEN ""
    ELSE IF Len(s) = 1 THEN s[1]
    ELSE s[1] \o sep \o Join(Tail(s), sep)

\* a {data, error} result that carries an error
Failed(e) == [data |-> Null, error |-> e]
\* a {data, error} result that carries data
Ok(d) == [data |-> Some(d), error |-> NoError]

\* .single(): exactly one row or the PGRST116 error with data null
Single(rows) ==
    IF Len(rows) = 1 THEN Ok(rows[1]) ELSE Failed(PGRST116)

\* ------------------------------------------------------------- store queries
\* from('user_chats').select('chat_id').eq('user_id', userId)
SelectChatLinks(userId) ==
    Map(SelectSeq(user_chats, LAMBDA l : l.user_id = userId),
        LAMBDA l : [chat_id |-> l.chat_id])

\* users(id, username) embedded through a user_chats row
EmbedUser(link) ==
    [user |-> SelectSeq(users, LAMBDA u : u.id = link.user_id)[1]]

\* participants:user_chats(user:users(id, username)) of one chat row
WithParticipants(chat) ==
    [id |-> chat.id, name |-> chat.name,
     participants |->
        Map(SelectSeq(user_chats, LAMBDA l : l.chat_id = chat.id), EmbedUser)]

\* from('chats').select(id, name, participants).in('id', chatIds)
SelectChatsIn(chatIds) ==
    Map(SelectSeq(chats, LAMBDA c : c.id \in Range(chatIds)), WithParticipants)

\* from('chats').select(id, name, participants).eq('id', chatId)
SelectChatById(chatId) ==
    Map(SelectSeq(chats, LAMBDA c : c.id = chatId), WithParticipants)

\* the rows of messages with chat_id = chatId
MessagesOf(chatId) == SelectSeq(messages, LAMBDA m : m.chat_id = chatId)

\* a callback that tests lastMessageError as the first two phases test theirs
CallbackThrowsOnError(result) == result.error # NoError

\* the fan-out callback destructures lastMessageError and never tests it:
\* no result of the messages query makes it throw
CallbackThrows(result) == FALSE

\* a messages query ordered by created_at ascending
SelectFirstMessage(chatId) ==
    LET rows == MessagesOf(chatId)
        low == { m \in Range(rows) : \A o \in Range(rows) : m.created_at <= o.created_at }
    IN  IF Len(rows) = 0 THEN { << >> }
        ELSE { << [body |-> m.body, created_at |-> m.created_at] >> : m \in low }

\* from('messages').select('body, created_at').eq('chat_id', chatId)
\*   .order('created_at', {ascending: false}).limit(1)
\* the arrays the store may return: the order of equal created_at is the store's
SelectLastMessage(chatId) ==
    LET rows == MessagesOf(chatId)
        top == { m \in Range(rows) : \A o \in Range(rows) : o.created_at <= m.created_at }
    IN  IF Len(rows) = 0 THEN { << >> }
        ELSE { << [body |-> m.body, created_at |-> m.created_at] >> : m \in top }

\* sender:users(username) embedded in a message row
WithSender(m) ==
    [id |-> m.id, body |-> m.body, created_at |-> m.created_at, sender_id |-> m.sender_id,
     sender |-> [username |-> SelectSeq(users, LAMBDA u : u.id = m.sender_id)[1].username]]

\* from('messages').select(...).eq('id', messageId)
SelectMessageById(messageId) ==
    Map(SelectSeq(messages, LAMBDA m : m.id = messageId), WithSender)

\* the created_at the store's clock gives a new row: not before any stored one
NextTimestamps ==
    LET last == IF Len(messages) = 0 THEN 1 ELSE messages[Len(messages)].created_at
    IN  {last, last + 1}

\* from('messages').insert([{chat_id, sender_id, body}])
InsertMessage(chatId, senderId, body, ts) ==
    [id |-> MessageIds[Len(messages) + 1], chat_id |-> chatId, sender_id |-> senderId,
     body |-> body, created_at |-> ts]

\* ------------------------------------------------------------- GET /api/chats
\* if (!userId)
Missing(param) == param = ""

\* the handler with the two `throw` guards left out
ThrowNever(result) == FALSE

\* if (chatLinksError) throw chatLinksError; if (chatsError) throw chatsError;
ThrowIfError(result) == result.error # NoError

\* the handler with the early return left out
ShortCircuitNever(chatIds) == FALSE

\* if (chatIds.length === 0) return res.status(200).json([]);
ShortCircuit(chatIds) == Len(chatIds) = 0

\* the handler with the requester left in the name
OtherParticipantsAll(participants, userId) == participants

\* chat.participants.filter(p => p.user?.id !== userId)
OtherParticipants(participants, userId) ==
    SelectSeq(participants, LAMBDA p : p.user.id # userId)

\* chat.name || (otherParticipants.length > 0 ? ...join(', ') : 'New Chat')
ChatName(name, otherParticipants) ==
    IF name # Null /\ name[1] # "" THEN name[1]
    ELSE IF Len(otherParticipants) > 0
         THEN Join(Map(otherParticipants, LAMBDA p : p.user.username), ", ")
         ELSE "New Chat"

\* (lastMessageData && lastMessageData.length > 0) ? lastMessageData[0] : null
LastMessage(result) ==
    IF result.data # Null /\ Len(result.data[1]) > 0 THEN Some(result.data[1][1]) ELSE Null

\* the object one fan-out callback returns
FormatChat(chat, userId, result) ==
    LET lastMessage == LastMessage(result)
    IN  [id |-> chat.id,
         name |-> ChatName(chat.name, OtherParticipants(chat.participants, userId)),
         participants |-> chat.participants,
         lastMessage |->
            IF lastMessage # Null
            THEN Some([body |-> lastMessage[1].body, timestamp |-> lastMessage[1].created_at])
            ELSE Null]

\* the value of a promise of the fan-out that has not settled
Unsettled == [id |-> "", name |-> "", participants |-> << >>, lastMessage |-> Null]

\* the handler with the await on Promise.all left out
AllSettledNoAwait(pending) == TRUE

\* Promise.all resolves once every promise has
AllSettled(pending) == pending = {}

\* results pushed to the list as each query completes
PromiseAllByArrival(results, order) ==
    [ i \in 1..Len(results) |-> IF i <= Len(order) THEN results[order[i]] ELSE results[i] ]

\* Promise.all resolves to the values in the order of the promises
PromiseAll(results, order) == [ i \in 1..Len(results) |-> results[i] ]

\* res.status(s).json(...)
ErrorResponse(s, msg) == [status |-> s, error |-> msg, chats |-> << >>]
ChatsResponse(list) == [status |-> 200, error |-> "", chats |-> list]

NoQueries == [links |-> 0, chats |-> 0, messages |-> 0]

\* catch (error) { res.status(500).json({ error: error.message }) }
Catch(msg) ==
    /\ cresp' = Append(cresp, ErrorResponse(500, msg))
    /\ cpc' = "done"

\* the handler up to the first await
ChatsStart(userId) ==
    /\ cpc = "idle"
    /\ cuser' = userId
    /\ IF Missing(userId)
       THEN /\ cresp' = Append(cresp, ErrorResponse(400, "User ID is required"))
            /\ cpc' = "done"
            /\ UNCHANGED cqueries
       ELSE /\ cpc' = "links"
            /\ cqueries' = [cqueries EXCEPT !.links = @ + 1]
            /\ UNCHANGED cresp
    /\ UNCHANGED << cchatIds, cchats, cpending, cresults, corder, cqlog, cerr >>
    /\ UNCHANGED << store, login, issued, kvars >>

\* phase 1 resumes with the membership rows
ChatsLinks ==
    /\ cpc = "links"
    /\ \E e \in Outcomes :
        LET result == IF e = NoError THEN Ok(SelectChatLinks(cuser)) ELSE Failed(e)
        IN  /\ cerr' = IF e = NoError THEN cerr ELSE Some([phase |-> 1, error |-> e])
            /\ IF ThrowIfError(result)
               THEN Catch(result.error.message) /\ UNCHANGED << cqueries, cchatIds >>
               ELSE IF result.data = Null
               THEN Catch(TypeErrorMessage) /\ UNCHANGED << cqueries, cchatIds >>
               ELSE LET chatIds == Map(result.data[1], LAMBDA link : link.chat_id)
                    IN  IF ShortCircuit(chatIds)
                        THEN /\ cresp' = Append(cresp, ChatsResponse(<< >>))
                             /\ cpc' = "done"
                             /\ UNCHANGED << cqueries, cchatIds >>
                        ELSE /\ cpc' = "chats"
                             /\ cchatIds' = chatIds
                             /\ cqueries' = [cqueries EXCEPT !.chats = @ + 1]
                             /\ UNCHANGED cresp
    /\ UNCHANGED << cuser, cchats, cpending, cresults, corder, cqlog >>
    /\ UNCHANGED << store, login, issued, kvars >>

\* phase 2 resumes with the chat rows and issues one messages query per chat
ChatsChats ==
    /\ cpc = "chats"
    /\ \E e \in Outcomes :
        LET result == IF e = NoError THEN Ok(SelectChatsIn(cchatIds)) ELSE Failed(e)
        IN  /\ cerr' = IF e = NoError THEN cerr ELSE Some([phase |-> 2, error |-> e])
            /\ IF ThrowIfError(result)
               THEN /\ Catch(result.error.message)
                    /\ UNCHANGED << cchats, cpending, cresults, cqueries >>
               ELSE IF result.data = Null
               THEN /\ Catch(TypeErrorMessage)
                    /\ UNCHANGED << cchats, cpending, cresults, cqueries >>
               ELSE /\ cchats' = result.data[1]
                    /\ cpending' = 1..Len(cchats')
                    /\ cresults' = [ i \in 1..Len(cchats') |-> Unsettled ]
                    /\ cqueries' = [cqueries EXCEPT !.messages = @ + Len(cchats')]
                    /\ cpc' = "fanout"
                    /\ UNCHANGED cresp
    /\ UNCHANGED << cuser, cchatIds, corder, cqlog >>
    /\ UNCHANGED << store, login, issued, kvars >>

\* the callback of chat i resumes with its last-message rows and returns; were
\* it to throw, Promise.all would reject at once and the catch would answer
ChatsLastMessage(i) ==
    /\ cpc = "fanout"
    /\ i \in cpending
    /\ \E e \in Outcomes, rows \in SelectLastMessage(cchats[i].id) :
        LET result == IF e = NoError THEN Ok(rows) ELSE Failed(e)
        IN  /\ cqlog' = cqlog @@ (i :> [chat_id |-> cchats[i].id, result |-> result,
                                        stored |-> Len(MessagesOf(cchats[i].id))])
            /\ IF CallbackThrows(result)
               THEN /\ Catch(result.error.message)
                    /\ UNCHANGED cresults
               ELSE /\ cresults' = [cresults EXCEPT ![i] = FormatChat(cchats[i], cuser, result)]
                    /\ UNCHANGED << cpc, cresp >>
    /\ cpending' = cpending \ {i}
    /\ corder' = Append(corder, i)
    /\ UNCHANGED << cuser, cchatIds, cchats, cqueries, cerr >>
    /\ UNCHANGED << store, login, issued, kvars >>

\* await Promise.all(...) resumes; res.status(200).json(formattedChats)
ChatsRespond ==
    /\ cpc = "fanout"
    /\ AllSettled(cpending)
    /\ cresp' = Append(cresp, ChatsResponse(PromiseAll(cresults, corder)))
    /\ cpc' = "done"
    /\ UNCHANGED << cuser, cchatIds, cchats, cpending, cresults, corder, cqlog, cqueries, cerr >>
    /\ UNCHANGED << store, login, issued, kvars >>

\* ------------------------------------------------------------- single-record handlers
KResponse(s, msg, data) == [status |-> s, error |-> msg, data |-> data]

\* if (error) return 500; if (!data) return 404 'Chat not found'; 200
GetChatResponse(result) ==
    IF result.error # NoError THEN KResponse(500, result.error.message, Null)
    ELSE IF result.data = Null THEN KResponse(404, "Chat not found", Null)
    ELSE KResponse(200, "", result.data)

\* if (error) return 500; if (!data) return 404 'Message not found'; 200
GetMessageResponse(result) ==
    IF result.error # NoError THEN KResponse(500, result.error.message, Null)
    ELSE IF result.data = Null THEN KResponse(404, "Message not found", Null)
    ELSE KResponse(200, "", result.data)

\* if (error) return 500; res.status(201).json(data)
PostMessageResponse(result) ==
    IF result.error # NoError THEN KResponse(500, result.error.message, Null)
    ELSE KResponse(201, "", result.data)

\* GET /api/chats/:chatId up to its await
GetChatStart(chatId) ==
    /\ kpc = "idle"
    /\ kreq' = [kind |-> "getChat", id |-> chatId, sender_id |-> "", body |-> ""]
    /\ kpc' = "wait"
    /\ UNCHANGED << kresp, kzero >>
    /\ UNCHANGED << store, login, issued, cvars >>

\* GET /api/chats/:chatId resumes with the .single() result
GetChatDone ==
    /\ kpc = "wait" /\ kreq.kind = "getChat"
    /\ \E e \in Outcomes :
        LET rows == SelectChatById(kreq.id)
            result == IF e = NoError THEN Single(rows) ELSE Failed(e)
        IN  /\ kresp' = Append(kresp, GetChatResponse(result))
            /\ kzero' = (e = NoError /\ Len(rows) = 0)
    /\ kpc' = "done"
    /\ UNCHANGED kreq
    /\ UNCHANGED << store, login, issued, cvars >>

\* GET /api/messages/:messageId up to its await
GetMessageStart(messageId) ==
    /\ kpc = "idle"
    /\ kreq' = [kind |-> "getMessage", id |-> messageId, sender_id |-> "", body |-> ""]
    /\ kpc' = "wait"
    /\ UNCHANGED << kresp, kzero >>
    /\ UNCHANGED << store, login, issued, cvars >>

\* GET /api/messages/:messageId resumes with the .single() result
GetMessageDone ==
    /\ kpc = "wait" /\ kreq.kind = "getMessage"
    /\ \E e \in Outcomes :
        LET rows == SelectMessageById(kreq.id)
            result == IF e = NoError THEN Single(rows) ELSE Failed(e)
        IN  /\ kresp' = Append(kresp, GetMessageResponse(result))
            /\ kzero' = (e = NoError /\ Len(rows) = 0)
    /\ kpc' = "done"
    /\ UNCHANGED kreq
    /\ UNCHANGED << store, login, issued, cvars >>

\* POST /api/chats/:chatId/messages up to its await
PostMessageStart(chatId, senderId, body) ==
    /\ kpc = "idle"
    /\ Len(messages) < MaxMessages
    /\ kreq' = [kind |-> "postMessage", id |-> chatId, sender_id |-> senderId, body |-> body]
    /\ kpc' = "wait"
    /\ UNCHANGED << kresp, kzero >>
    /\ UNCHANGED << store, login, issued, cvars >>

\* POST /api/chats/:chatId/messages resumes with the created row
PostMessageDone ==
    /\ kpc = "wait" /\ kreq.kind = "postMessage"
    /\ \E e \in Outcomes, ts \in NextTimestamps :
        LET row == InsertMessage(kreq.id, kreq.sender_id, kreq.body, ts)
            result == IF e = NoError THEN Ok(WithSender(row)) ELSE Failed(e)
        IN  /\ messages' = IF e = NoError THEN Append(messages, row) ELSE messages
            /\ kresp' = Append(kresp, PostMessageResponse(result))
    /\ kpc' = "done"
    /\ UNCHANGED << kreq, kzero >>
    /\ UNCHANGED << users, chats, user_chats, login, issued, cvars >>

\* the connection of a served request closes; the next request arrives on a fresh one
KNext ==
    /\ kpc = "done"
    /\ kpc' = "idle"
    /\ kresp' = << >>
    /\ kzero' = FALSE
    /\ kreq' = [kind |-> "", id |-> "", sender_id |-> "", body |-> ""]
    /\ UNCHANGED << store, login, issued, cvars >>

\* ------------------------------------------------------------- POST /api/login
LoginSlots == {1, 2}

IdleLogin ==
    [pc |-> "idle", username |-> "", resp |-> << >>,
     absent |-> FALSE, sawNotFound |-> FALSE, created |-> 0]

LoginResponse(s, msg, user) == [status |-> s, error |-> msg, user |-> user]

\* from('users').select('id, username').eq('username', username)
SelectUsersByUsername(username) == SelectSeq(users, LAMBDA u : u.username = username)

\* the handler with the error code left unchecked
LoginBranchAnyError(error) == IF error # NoError THEN "insert" ELSE "ok"

\* if (error && error.code === 'PGRST116') ... else if (error) ... : which way the handler goes
LoginBranch(error) ==
    IF error # NoError /\ error.code = "PGRST116" THEN "insert"
    ELSE IF error # NoError THEN "fail"
    ELSE "ok"

\* an insert that hands back the stored row of that username when there is one
UpsertUser(username) ==
    LET found == SelectUsersByUsername(username)
        row == [id |-> UserIds[Len(users) + 1], username |-> username]
    IN  IF Len(found) > 0 THEN [rows |-> users, created |-> found[1]]
        ELSE [rows |-> Append(users, row), created |-> row]

\* from('users').insert([{ username }]).select('id, username').single()
InsertUser(username) ==
    LET row == [id |-> UserIds[Len(users) + 1], username |-> username]
    IN  [rows |-> Append(users, row), created |-> row]

InFlight == { r \in LoginSlots : login[r].pc \in {"lookup", "insert"} }

\* the handler up to the first await
LoginStart(r, username) ==
    /\ login[r].pc = "idle"
    /\ Len(users) + Cardinality(InFlight) < MaxUsers
    /\ IF Missing(username)
       THEN login' = [login EXCEPT ![r] =
                [@ EXCEPT !.pc = "done", !.username = username,
                          !.resp = Append(@, LoginResponse(400, "Username is required", Null))]]
       ELSE login' = [login EXCEPT ![r] =
                [@ EXCEPT !.pc = "lookup", !.username = username,
                          !.absent = (Len(SelectUsersByUsername(username)) = 0)]]
    /\ UNCHANGED << store, issued, cvars, kvars >>

\* the lookup resumes; on not-found the insert is issued
LoginLookup(r) ==
    /\ login[r].pc = "lookup"
    /\ \E e \in Outcomes :
        LET result == IF e = NoError THEN Single(SelectUsersByUsername(login[r].username))
                      ELSE Failed(e)
            branch == LoginBranch(result.error)
        IN  IF branch = "insert"
            THEN /\ login' = [login EXCEPT ![r] =
                        [@ EXCEPT !.pc = "insert", !.sawNotFound = TRUE]]
                 /\ UNCHANGED issued
            ELSE IF branch = "fail"
            THEN /\ login' = [login EXCEPT ![r] =
                        [@ EXCEPT !.pc = "done",
                                  !.resp = Append(@, LoginResponse(500, result.error.message, Null))]]
                 /\ UNCHANGED issued
            ELSE /\ login' = [login EXCEPT ![r] =
                        [@ EXCEPT !.pc = "done",
                                  !.resp = Append(@, LoginResponse(200, "", result.data))]]
                 /\ issued' = issued \cup
                        { [username |-> login[r].username, id |-> u[1].id] : u \in {result.data} \ {Null} }
    /\ UNCHANGED << store, cvars, kvars >>

\* the insert resumes
LoginInsert(r) ==
    /\ login[r].pc = "insert"
    /\ \E e \in Outcomes :
        LET ins == InsertUser(login[r].username)
        IN  IF e = NoError
            THEN /\ users' = ins.rows
                 /\ login' = [login EXCEPT ![r] =
                        [@ EXCEPT !.pc = "done",
                                  !.created = @ + (Len(ins.rows) - Len(users)),
                                  !.resp = Append(@, LoginResponse(200, "", Some(ins.created)))]]
                 /\ issued' = issued \cup
                        { [username |-> login[r].username, id |-> ins.created.id] }
            ELSE /\ users' = users
                 /\ login' = [login EXCEPT ![r] =
                        [@ EXCEPT !.pc = "done",
                                  !.resp = Append(@, LoginResponse(500, e.message, Null))]]
                 /\ UNCHANGED issued
    /\ UNCHANGED << chats, user_chats, messages, cvars, kvars >>

\* the connection of a served request closes; the next request arrives on a fresh one
LoginNext(r) ==
    /\ login[r].pc = "done"
    /\ login' = [login EXCEPT ![r] = IdleLogin]
    /\ UNCHANGED << store, issued, cvars, kvars >>

\* ------------------------------------------------------------- initial state
\* a chat with two messages, "hi" then "yo"
SeedMessages ==
    << [id |-> "m1", chat_id |-> "c1", sender_id |-> "u2", body |-> "hi", created_at |-> 1],
       [id |-> "m2", chat_id |-> "c1", sender_id |-> "u1", body |-> "yo", created_at |-> 2] >>

Init ==
    /\ users = << [id |-> "u1", username |-> "alice"],
                  [id |-> "u2", username |-> "bob"],
                  [id |-> "u3", username |-> "carol"] >>
    /\ chats = << [id |-> "c1", name |-> Null],
                  [id |-> "c2", name |-> Some("Team")],
                  [id |-> "c3", name |-> Some("")] >>
    /\ user_chats = << [user_id |-> "u1", chat_id |-> "c1"],
                       [user_id |-> "u2", chat_id |-> "c1"],
                       [user_id |-> "u3", chat_id |-> "c1"],
                       [user_id |-> "u1", chat_id |-> "c2"],
                       [user_id |-> "u2", chat_id |-> "c2"],
                       [user_id |-> "u3", chat_id |-> "c3"] >>
    /\ messages \in { << >>, SeedMessages }
    /\ login = [ r \in LoginSlots |-> IdleLogin ]
    /\ issued = {}
    /\ cpc = "idle"
    /\ cuser = ""
    /\ cchatIds = << >>
    /\ cchats = << >>
    /\ cpending = {}
    /\ cresults = << >>
    /\ corder = << >>
    /\ cqlog = << >>
    /\ cqueries = NoQueries
    /\ cresp = << >>
    /\ cerr = Null
    /\ kpc = "idle"
    /\ kreq = [kind |-> "", id |-> "", sender_id |-> "", body |-> ""]
    /\ kresp = << >>
    /\ kzero = FALSE

\* the chat list served while messages are posted
Next ==
    \/ \E userId \in UserIdParams : ChatsStart(userId)
    \/ ChatsLinks
    \/ ChatsChats
    \/ \E i \in 1..Len(chats) : ChatsLastMessage(i)
    \/ ChatsRespond
    \/ \E chatId \in PostChatIds, body \in Bodies : PostMessageStart(chatId, "u2", body)
    \/ PostMessageDone
    \/ KNext

Spec == Init /\ [][Next]_vars

\* the single-record lookups served while messages are posted
NextLookup ==
    \/ \E chatId \in ChatIdParams : GetChatStart(chatId)
    \/ GetChatDone
    \/ \E messageId \in MessageIdParams : GetMessageStart(messageId)
    \/ GetMessageDone
    \/ \E chatId \in PostChatIds, body \in Bodies : PostMessageStart(chatId, "u2", body)
    \/ PostMessageDone
    \/ KNext

SpecLookup == Init /\ [][NextLookup]_vars

\* logins that never overlap: one request at a time
NextLoginSeq ==
    \/ \E username \in Usernames : LoginStart(1, username)
    \/ LoginLookup(1)
    \/ LoginInsert(1)
    \/ LoginNext(1)

SpecLoginSeq == Init /\ [][NextLoginSeq]_vars

\* logins that overlap: each slot is a request in flight
NextLogin ==
    \/ \E r \in LoginSlots, username \in Usernames : LoginStart(r, username)
    \/ \E r \in LoginSlots : LoginLookup(r)
    \/ \E r \in LoginSlots : LoginInsert(r)
    \/ \E r \in LoginSlots : LoginNext(r)

SpecLogin == Init /\ [][NextLogin]_vars

\* the chat list under fair completion of the store queries: an issued query
\* completes, and a resumed handler runs
NextChats ==
    \/ \E userId \in UserIdParams : ChatsStart(userId)
    \/ ChatsLinks
    \/ ChatsChats
    \/ \E i \in 1..Len(chats) : ChatsLastMessage(i)
    \/ ChatsRespond

FairSpec ==
    /\ Init /\ [][NextChats]_vars
    /\ WF_vars(ChatsLinks)
    /\ WF_vars(ChatsChats)
    /\ WF_vars(\E i \in 1..Len(chats) : ChatsLastMessage(i))
    /\ WF_vars(ChatsRespond)

\* ------------------------------------------------------------- properties
\* the GET /api/chats request has been answered 200
ChatsOk == cpc = "done" /\ Len(cresp) = 1 /\ cresp[1].status = 200

\* the messages of chat chatId that were stored when there were n of them
StoredThen(chatId, n) == SubSeq(MessagesOf(chatId), 1, n)

C2_MissingRowIs404 ==
    (kpc = "done" /\ kreq.kind \in {"getChat", "getMessage"} /\ kzero)
        => kresp[1].status = 404

\* C3: with logins that do not overlap, no two users rows share a username,
\* every 200 answer for one username carries the same id, a login of an absent
\* username that is answered 200 has created exactly one row and returns it, a
\* login of a present username creates none, and a login with a username is
\* answered 200 unless the store reported an error (then 500, nothing created).
C3_SequentialLoginIdempotent ==
    /\ \A i, j \in 1..Len(users) : users[i].username = users[j].username => i = j
    /\ \A a, b \in issued : a.username = b.username => a.id = b.id
    /\ \A r \in LoginSlots : login[r].pc = "done" =>
        LET resp == login[r].resp[1]
        IN  /\ Len(login[r].resp) = 1
            /\ login[r].username # "" =>
                \/ resp.status = 200
                \/ resp.status = 500 /\ resp.error \in { e.message : e \in StoreErrors }
            /\ resp.status = 200 =>
                /\ resp.user # Null
                /\ resp.user[1].username = login[r].username
                /\ resp.user[1] \in Range(users)
                /\ login[r].created = (IF login[r].absent THEN 1 ELSE 0)
            /\ resp.status # 200 => login[r].created = 0

\* a second login of the username a first login created is answered 200
C3_Witness ==
    /\ login[1].pc = "done"
    /\ login[1].username = "erin"
    /\ ~login[1].absent
    /\ login[1].resp[1].status = 200
    /\ login[1].resp[1].user[1].id = "u4"
    /\ [username |-> "erin", id |-> "u4"] \in issued

\* C4: a request whose user has no membership row issues neither the chats
\* query nor a messages query, and when the membership query succeeds it is
\* answered 200 with the empty list.
C4_NoMembershipShortCircuit ==
    (cpc # "idle" /\ ~Missing(cuser) /\ Len(SelectChatLinks(cuser)) = 0) =>
        /\ cqueries = [links |-> 1, chats |-> 0, messages |-> 0]
        /\ (cpc = "done" /\ cerr = Null) => cresp = << ChatsResponse(<< >>) >>

C4_Witness ==
    /\ cpc = "done" /\ cuser = "u9" /\ cerr = Null
    /\ cresp = << ChatsResponse(<< >>) >>

\* C5: every chat of a 200 answer is named by its stored name when that is
\* non-empty, else by the usernames of the participants other than the
\* requester joined with ", " in list order, else "New Chat"; its participants
\* are the full list of the chat, the requester included.
C5_DisplayName ==
    ChatsOk => \A i \in 1..Len(cresp[1].chats) :
        LET s == cresp[1].chats[i]
            c == CHOOSE c \in Range(chats) : c.id = s.id
            parts == WithParticipants(c).participants
            others == { k \in 1..Len(parts) : parts[k].user.id # cuser }
            joined[k \in 0..Len(parts)] ==
                IF k = 0 THEN ""
                ELSE IF k \notin others THEN joined[k - 1]
                ELSE IF \E o \in others : o < k
                     THEN joined[k - 1] \o ", " \o parts[k].user.username
                     ELSE parts[k].user.username
        IN  /\ s.participants = parts
            /\ \E k \in 1..Len(parts) : parts[k].user.id = cuser
            /\ s.name = (IF c.name # Null /\ c.name # Some("") THEN c.name[1]
                         ELSE IF others # {} THEN joined[Len(parts)]
                         ELSE "New Chat")

\* alice's list names the unnamed chat after bob and carol
C5_Witness ==
    /\ ChatsOk /\ cuser = "u1"
    /\ \E i \in 1..Len(cresp[1].chats) :
        cresp[1].chats[i].id = "c1" /\ cresp[1].chats[i].name = "bob, carol"

C7_EarlyErrorAborts ==
    cerr # Null =>
        /\ cpc = "done"
        /\ cresp = << ErrorResponse(500, cerr[1].error.message) >>
        /\ cqueries = [links |-> 1, chats |-> (IF cerr[1].phase = 1 THEN 0 ELSE 1),
                       messages |-> 0]

C7_Witness ==
    /\ cerr # Null /\ cerr[1].phase = 2
    /\ cresp = << ErrorResponse(500, "permission denied") >>

\* C8: two overlapping logins of one absent username that both saw not-found
\* and were both answered 200 have each inserted a row: the store holds two
\* users of that username and the two answers carry different ids.
C8_RacingLoginsBothInsert ==
    \A r1, r2 \in LoginSlots :
        ( /\ r1 # r2
          /\ login[r1].pc = "done" /\ login[r2].pc = "done"
          /\ login[r1].username = login[r2].username
          /\ login[r1].absent /\ login[r2].absent
          /\ login[r1].sawNotFound /\ login[r2].sawNotFound
          /\ login[r1].resp[1].status = 200 /\ login[r2].resp[1].status = 200 )
        => /\ login[r1].resp[1].user[1].id # login[r2].resp[1].user[1].id
           /\ login[r1].created = 1 /\ login[r2].created = 1
           /\ Len(SelectUsersByUsername(login[r1].username)) >= 2

C8_Witness ==
    /\ login[1].pc = "done" /\ login[2].pc = "done"
    /\ login[1].username = "erin" /\ login[2].username = "erin"
    /\ login[1].absent /\ login[2].absent
    /\ login[1].sawNotFound /\ login[2].sawNotFound
    /\ login[1].resp[1].status = 200 /\ login[2].resp[1].status = 200
    /\ Len(SelectUsersByUsername("erin")) = 2

\* C9: whatever the order the last-message queries completed in, a 200 answer
\* lists the chats in the order the chats query returned them, and each
\* lastMessage is what the query issued for that chat's own id returned.
C9_MergeByChat ==
    (ChatsOk /\ Len(cchats) > 0) =>
        /\ Len(cresp[1].chats) = Len(cchats)
        /\ \A i \in 1..Len(cchats) :
            LET s == cresp[1].chats[i]
            IN  /\ s.id = cchats[i].id
                /\ \E j \in DOMAIN cqlog :
                    /\ cqlog[j].chat_id = s.id
                    /\ LET data == cqlog[j].result.data
                       IN  IF data = Null \/ data = Some(<< >>)
                           THEN s.lastMessage = Null
                           ELSE s.lastMessage =
                                Some([body |-> data[1][1].body,
                                      timestamp |-> data[1][1].created_at])

\* the second chat's query completed first, and the two results differ
C9_Witness ==
    /\ ChatsOk /\ corder = << 2, 1 >>
    /\ cresp[1].chats[1].lastMessage # cresp[1].chats[2].lastMessage

\* C10: no answer is sent while a last-message query of the request is
\* outstanding, at most one answer is ever sent, and under fair completion of
\* the queries a request that fanned out is eventually answered exactly once.
C10_AnswerAfterAllSettle ==
    /\ [](cpc = "done" => cpending = {} /\ \A i \in 1..Len(cchats) : i \in DOMAIN cqlog)
    /\ [](Len(cresp) <= 1)
    /\ (cpc = "fanout") ~> (cpc = "done" /\ Len(cresp) = 1)

C10_Witness ==
    /\ ChatsOk /\ Len(cchats) = 2 /\ Len(corder) = 2
====
